---- MODULE Spec2Model ----
(***************************************************************************)
(* Model of the movie-recap application: the PCM-to-WAV encoder of         *)
(* utils/audio.ts (decode, encodeWAV, writeString, createWavBlob,          *)
(* createWavUrl) and the App component that holds the resulting blob URLs. *)
(*                                                                         *)
(* A JavaScript string is a sequence of one-character strings.  A call     *)
(* that can throw returns a record [threw, error, value].  The host is     *)
(* little-endian (every platform a browser build of this app runs on), so  *)
(* a typed-array view reads its bytes least-significant first.             *)
(***************************************************************************)
EXTENDS Integers, Sequences, FiniteSets, TLC

VARIABLES
    blobStore,      \* the browser's blob URL store: url -> Blob
    urlCounter,     \* number of urls URL.createObjectURL has handed out
    pc,             \* position of the call harness: "idle" or "done"
    call,           \* the call under way: function name and arguments
    ret,            \* what the call returned or threw
    storeBefore,    \* blobStore as it was when the call was made
    transcript, mediaFile, isTranscribing, recapScript, title, audioUrl,
    isLoading, error, history,      \* App's useState cells
    gen,            \* the in-flight handleGenerate: its position and locals
    now             \* Date.now(), as a count of the recaps started

appVars == <<transcript, mediaFile, isTranscribing, recapScript, title,
             audioUrl, isLoading, error, history, gen, now>>
callVars == <<pc, call, ret, storeBefore>>
vars == <<blobStore, urlCounter, callVars, appVars>>

-----------------------------------------------------------------------------
(* Bounds *)

MaxB64Len == 6          \* longest enumerated base64 input
MaxSamples == 2         \* longest Int16Array handed to encodeWAV directly
MaxRecaps == 2          \* recaps the user starts in one run of the App
MaxUrls == 3            \* urls handed out before history loading stops

-----------------------------------------------------------------------------
(* JavaScript strings and character codes *)

Upper == <<"A","B","C","D","E","F","G","H","I","J","K","L","M",
           "N","O","P","Q","R","S","T","U","V","W","X","Y","Z">>
Lower == <<"a","b","c","d","e","f","g","h","i","j","k","l","m",
           "n","o","p","q","r","s","t","u","v","w","x","y","z">>
Digits == <<"0","1","2","3","4","5","6","7","8","9">>

IndexOf(seq, c) == CHOOSE i \in 1..Len(seq) : seq[i] = c
Range(seq) == {seq[i] : i \in 1..Len(seq)}

\* String.prototype.charCodeAt for the characters that occur
CharCode(c) ==
    CASE c \in Range(Upper) -> 64 + IndexOf(Upper, c)
      [] c \in Range(Lower) -> 96 + IndexOf(Lower, c)
      [] c \in Range(Digits) -> 47 + IndexOf(Digits, c)
      [] c = " " -> 32
      [] c = "!" -> 33
      [] c = "+" -> 43
      [] c = "/" -> 47
      [] c = "=" -> 61

-----------------------------------------------------------------------------
(* atob: the forgiving-base64 decode of the HTML standard *)

Base64Alphabet == Upper \o Lower \o Digits \o <<"+", "/">>
AsciiWhitespace == {" ", "\t", "\n", "\f", "\r"}

Sextet(c) == IndexOf(Base64Alphabet, c) - 1

StripWhitespace(s) == SelectSeq(s, LAMBDA c : c \notin AsciiWhitespace)

\* a length divisible by 4 loses one or two trailing "="
StripPadding(s) ==
    IF Len(s) % 4 = 0 /\ Len(s) > 0 /\ s[Len(s)] = "="
    THEN IF s[Len(s) - 1] = "=" THEN SubSeq(s, 1, Len(s) - 2)
                                ELSE SubSeq(s, 1, Len(s) - 1)
    ELSE s

\* byte j (0-based) of the bit stream of sextets; leftover bits are dropped
Base64Byte(s, j) ==
    LET g == 4 * (j \div 3)
        r == j % 3
    IN CASE r = 0 -> Sextet(s[g + 1]) * 4 + (Sextet(s[g + 2]) \div 16)
         [] r = 1 -> (Sextet(s[g + 2]) % 16) * 16 + (Sextet(s[g + 3]) \div 4)
         [] r = 2 -> (Sextet(s[g + 3]) % 4) * 64 + Sextet(s[g + 4])

atob(data) ==
    LET s == StripPadding(StripWhitespace(data))
    IN IF Len(s) % 4 = 1 \/ \E i \in 1..Len(s) : s[i] \notin Range(Base64Alphabet)
       THEN [threw |-> TRUE, error |-> "InvalidCharacterError", value |-> <<>>]
       ELSE [threw |-> FALSE, error |-> "",
             value |-> [j \in 1..((Len(s) * 6) \div 8) |-> Base64Byte(s, j - 1)]]

-----------------------------------------------------------------------------
(* utils/audio.ts *)

\* the loop of decode: one Uint8Array element per code unit
Uint8ArrayFrom(binaryString) ==
    IF binaryString.threw THEN binaryString
    ELSE [threw |-> FALSE, error |-> "",
          value |-> [i \in 1..Len(binaryString.value) |->
                        binaryString.value[i] % 256]]

decode(base64) == Uint8ArrayFrom(atob(base64))

\* the signed 16-bit integer with the given 16 bits
ToInt16(v) == IF v % 65536 >= 32768 THEN (v % 65536) - 65536 ELSE v % 65536

\* Int16ArrayOf, had it dropped a trailing odd byte
Int16ArrayOf_truncating(bytes) ==
    [threw |-> FALSE, error |-> "",
     value |-> [i \in 1..(Len(bytes) \div 2) |->
                   ToInt16(bytes[2 * i - 1] + 256 * bytes[2 * i])]]

\* Int16ArrayOf, had the view been a Uint16Array
Int16ArrayOf_unsigned(bytes) ==
    IF Len(bytes) % 2 # 0
    THEN [threw |-> TRUE, error |-> "RangeError", value |-> <<>>]
    ELSE [threw |-> FALSE, error |-> "",
          value |-> [i \in 1..(Len(bytes) \div 2) |->
                        bytes[2 * i - 1] + 256 * bytes[2 * i]]]

\* new Int16Array(buffer): a view of the whole buffer, host byte order
Int16ArrayOf(bytes) ==
    IF Len(bytes) % 2 # 0
    THEN [threw |-> TRUE, error |-> "RangeError", value |-> <<>>]
    ELSE [threw |-> FALSE, error |-> "",
          value |-> [i \in 1..(Len(bytes) \div 2) |->
                        ToInt16(bytes[2 * i - 1] + 256 * bytes[2 * i])]]

\* DataView setters; offsets are 0-based, the view is a 1-based sequence
setUint8(view, offset, v) == [view EXCEPT ![offset + 1] = v % 256]

\* setUint16 without the littleEndian flag: big-endian
setUint16BE(view, offset, v) ==
    LET u == v % 65536
    IN [view EXCEPT ![offset + 1] = u \div 256, ![offset + 2] = u % 256]

setUint16LE(view, offset, v) ==
    LET u == v % 65536
    IN [view EXCEPT ![offset + 1] = u % 256, ![offset + 2] = u \div 256]

setInt16LE(view, offset, v) == setUint16LE(view, offset, v)

\* setUint32 without the littleEndian flag: big-endian
setUint32BE(view, offset, v) ==
    [view EXCEPT ![offset + 1] = (v \div 16777216) % 256,
                 ![offset + 2] = (v \div 65536) % 256,
                 ![offset + 3] = (v \div 256) % 256,
                 ![offset + 4] = v % 256]

\* byte k of v modulo 2^32, least significant first (\div rounds down, so
\* a negative v yields the bytes of its two's complement)
setUint32LE(view, offset, v) ==
    [view EXCEPT ![offset + 1] = v % 256,
                 ![offset + 2] = (v \div 256) % 256,
                 ![offset + 3] = (v \div 65536) % 256,
                 ![offset + 4] = (v \div 16777216) % 256]

RECURSIVE writeStringFrom(_, _, _, _)
writeStringFrom(view, offset, string, i) ==
    IF i >= Len(string) THEN view
    ELSE writeStringFrom(setUint8(view, offset + i, CharCode(string[i + 1])),
                         offset, string, i + 1)

writeString(view, offset, string) == writeStringFrom(view, offset, string, 0)

\* the sample loop, had it written each sample big-endian
RECURSIVE writeSamplesFrom_BE(_, _, _)
writeSamplesFrom_BE(view, samples, i) ==
    IF i >= Len(samples) THEN view
    ELSE writeSamplesFrom_BE(setUint16BE(view, 44 + i * 2, samples[i + 1]),
                             samples, i + 1)

RECURSIVE writeSamplesFrom(_, _, _)
writeSamplesFrom(view, samples, i) ==
    IF i >= Len(samples) THEN view
    ELSE writeSamplesFrom(setInt16LE(view, 44 + i * 2, samples[i + 1]),
                          samples, i + 1)

\* the writes of the RIFF header, the fmt chunk and the head of the data
\* chunk, in the order of the code
headerWrites(samples, sampleRate, numChannels) ==
    << [op |-> "string", at |-> 0, v |-> <<"R","I","F","F">>],
       [op |-> "u32", at |-> 4, v |-> 36 + Len(samples) * 2],
       [op |-> "string", at |-> 8, v |-> <<"W","A","V","E">>],
       [op |-> "string", at |-> 12, v |-> <<"f","m","t"," ">>],
       [op |-> "u32", at |-> 16, v |-> 16],
       [op |-> "u16", at |-> 20, v |-> 1],
       [op |-> "u16", at |-> 22, v |-> numChannels],
       [op |-> "u32", at |-> 24, v |-> sampleRate],
       [op |-> "u32", at |-> 28, v |-> sampleRate * numChannels * 2],
       [op |-> "u16", at |-> 32, v |-> numChannels * 2],
       [op |-> "u16", at |-> 34, v |-> 16],
       [op |-> "string", at |-> 36, v |-> <<"d","a","t","a">>],
       [op |-> "u32", at |-> 40, v |-> Len(samples) * 2] >>

applyWrite(view, w) ==
    CASE w.op = "string" -> writeString(view, w.at, w.v)
      [] w.op = "u16" -> setUint16LE(view, w.at, w.v)
      [] w.op = "u32" -> setUint32LE(view, w.at, w.v)

RECURSIVE applyWrites(_, _, _)
applyWrites(view, writes, i) ==
    IF i > Len(writes) THEN view
    ELSE applyWrites(applyWrite(view, writes[i]), writes, i + 1)

writeHeader(view, samples, sampleRate, numChannels) ==
    applyWrites(view, headerWrites(samples, sampleRate, numChannels), 1)

\* new Blob([view], {type}): a copy of the bytes under the view
Blob(view, type) == [type |-> type, bytes |-> view]

\* the view with one byte per sample after the header
oneBytePerSample(header, samples) ==
    [i \in 1..(44 + Len(samples)) |->
        IF i <= 44 THEN header[i] ELSE samples[i - 44] % 256]

\* encodeWAV, had it allotted one byte to a sample
encodeWAV_oneBytePerSample(samples, sampleRate, numChannels) ==
    Blob(oneBytePerSample(
             writeHeader([i \in 1..(44 + Len(samples)) |-> 0], samples,
                         sampleRate, numChannels),
             samples),
         "audio/wav")

encodeWAV(samples, sampleRate, numChannels) ==
    Blob(writeSamplesFrom(
             writeHeader([i \in 1..(44 + Len(samples) * 2) |-> 0], samples,
                         sampleRate, numChannels),
             samples, 0),
         "audio/wav")

facadeSampleRate == 24000
facadeNumChannels == 1

\* pcmData of createWavBlob, or what has been thrown before it
pcmDataOf(rawData) ==
    IF rawData.threw THEN rawData ELSE Int16ArrayOf(rawData.value)

\* the end of createWavBlob; the record keeps the locals next to the outcome
wavBlobOf(rawData, pcmData) ==
    [threw |-> pcmData.threw,
     error |-> pcmData.error,
     rawData |-> rawData.value,
     pcmData |-> pcmData.value,
     value |-> IF pcmData.threw THEN Blob(<<>>, "")
               ELSE encodeWAV(pcmData.value, facadeSampleRate,
                              facadeNumChannels)]

createWavBlobFrom(rawData) == wavBlobOf(rawData, pcmDataOf(rawData))

createWavBlob(base64Audio) == createWavBlobFrom(decode(base64Audio))

-----------------------------------------------------------------------------
(* The browser's blob URL store *)

NoUrl == 0      \* null, where a url is expected
NoBlob == Blob(<<>>, "")
EmptyStore == [u \in {} |-> NoBlob]

\* createObjectURL, had it handed out the latest url again
createObjectURL_reuseLast(store, counter, blob) ==
    [url |-> IF counter = 0 THEN 1 ELSE counter,
     store |-> ((IF counter = 0 THEN 1 ELSE counter) :> blob) @@ store]

\* URL.createObjectURL: a fresh url, registered for the blob
createObjectURL(store, counter, blob) ==
    [url |-> counter + 1, store |-> store @@ ((counter + 1) :> blob)]

\* urlOf, had the blob been registered before the encoder could throw
urlOf_registerFirst(wavBlob, reg, store, counter) ==
    [threw |-> wavBlob.threw, error |-> wavBlob.error,
     url |-> IF wavBlob.threw THEN NoUrl ELSE reg.url,
     store |-> reg.store, counter |-> counter + 1,
     rawData |-> wavBlob.rawData, pcmData |-> wavBlob.pcmData]

\* the end of createWavUrl: the url for the blob, unless it was thrown
urlOf(wavBlob, reg, store, counter) ==
    IF wavBlob.threw
    THEN [threw |-> TRUE, error |-> wavBlob.error, url |-> NoUrl,
          store |-> store, counter |-> counter,
          rawData |-> wavBlob.rawData, pcmData |-> wavBlob.pcmData]
    ELSE [threw |-> FALSE, error |-> "", url |-> reg.url,
          store |-> reg.store, counter |-> counter + 1,
          rawData |-> wavBlob.rawData, pcmData |-> wavBlob.pcmData]

registerAndReturn(wavBlob, store, counter) ==
    urlOf(wavBlob, createObjectURL(store, counter, wavBlob.value),
          store, counter)

\* createWavUrl: what it returns or throws, and the store it leaves
createWavUrl(store, counter, base64Audio) ==
    registerAndReturn(createWavBlob(base64Audio), store, counter)

-----------------------------------------------------------------------------
(* Calls of the encoder on enumerated inputs *)

Base64Chars == {"A", "Q", "/", "=", "!"}
KnownVectors == { <<"A","Q","A","C","A","A","M","A","B","A","A","=">>,
                  <<"N","B","I","=">>,
                  <<"A","I","A","=">>,
                  <<"A","Q"," ","A","=">>,
                  <<"A","Q","I","D">> }
Base64Inputs ==
    KnownVectors \cup UNION {[1..k -> Base64Chars] : k \in 0..MaxB64Len}

SampleValues == {-32768, -1, 0, 4660}
SampleRates == {-1, 0, 24000, 44100}
ChannelCounts == {-1, 0, 1, 2}
SampleInputs == UNION {[1..k -> SampleValues] : k \in 0..MaxSamples}

NoCall == [fn |-> "", base64Audio |-> <<>>, samples |-> <<>>,
           sampleRate |-> 0, numChannels |-> 0]
NoRet == [threw |-> FALSE, error |-> "", url |-> NoUrl, blob |-> NoBlob,
          rawData |-> <<>>, pcmData |-> <<>>]

\* stores an earlier call can have left behind
PriorStores ==
    {EmptyStore,
     createWavUrl(EmptyStore, 0, <<"A","g","A","=">>).store}

NoError == "null"       \* null, where an error message is expected
GenIdle == [pc |-> "idle", script |-> "", title |-> ""]

AppInit ==
    /\ transcript = <<>>
    /\ mediaFile = FALSE
    /\ isTranscribing = FALSE
    /\ recapScript = ""
    /\ title = ""
    /\ audioUrl = NoUrl
    /\ isLoading = FALSE
    /\ error = NoError
    /\ history = <<>>
    /\ gen = GenIdle
    /\ now = 0

InitAudio ==
    /\ blobStore \in PriorStores
    /\ urlCounter = Cardinality(DOMAIN blobStore)
    /\ pc = "idle"
    /\ \/ \E b \in Base64Inputs :
             call = [NoCall EXCEPT !.fn = "createWavUrl", !.base64Audio = b]
       \/ \E s \in SampleInputs, r \in SampleRates, c \in ChannelCounts :
             call = [NoCall EXCEPT !.fn = "encodeWAV", !.samples = s,
                                   !.sampleRate = r, !.numChannels = c]
    /\ ret = NoRet
    /\ storeBefore = blobStore
    /\ AppInit

CallCreateWavUrl ==
    /\ pc = "idle"
    /\ call.fn = "createWavUrl"
    /\ \E r \in {createWavUrl(blobStore, urlCounter, call.base64Audio)} :
          /\ ret' = [NoRet EXCEPT !.threw = r.threw, !.error = r.error,
                                  !.url = r.url, !.rawData = r.rawData,
                                  !.pcmData = r.pcmData]
          /\ blobStore' = r.store
          /\ urlCounter' = r.counter
    /\ storeBefore' = blobStore
    /\ pc' = "done"
    /\ UNCHANGED <<call, appVars>>

CallEncodeWAV ==
    /\ pc = "idle"
    /\ call.fn = "encodeWAV"
    /\ ret' = [NoRet EXCEPT !.blob = encodeWAV(call.samples, call.sampleRate,
                                               call.numChannels)]
    /\ storeBefore' = blobStore
    /\ pc' = "done"
    /\ UNCHANGED <<call, blobStore, urlCounter, appVars>>

NextAudio == CallCreateWavUrl \/ CallEncodeWAV

SpecAudio == InitAudio /\ [][NextAudio]_vars

-----------------------------------------------------------------------------
(* The App component.  A handler runs to its next await in one step; the   *)
(* services it awaits settle in a later step with a value or an error.     *)

Transcripts == { <<>>, <<" ">>, <<"t">> }

RECURSIVE TrimStart(_)
TrimStart(s) ==
    IF s # <<>> /\ Head(s) \in AsciiWhitespace THEN TrimStart(Tail(s)) ELSE s

RECURSIVE TrimEnd(_)
TrimEnd(s) ==
    IF s # <<>> /\ s[Len(s)] \in AsciiWhitespace
    THEN TrimEnd(SubSeq(s, 1, Len(s) - 1)) ELSE s

\* String.prototype.trim
Trim(s) == TrimEnd(TrimStart(s))

\* what generateRecapScript can resolve to
Recaps == { [script |-> "s1", title |-> "t1"],
            [script |-> "s2", title |-> "t2"] }

\* what generateAudio can resolve to: the speech of the script, or data
\* that is not 16-bit PCM in base64
SpeechOf(script) ==
    IF script = "s1" THEN <<"A","Q","A","=">> ELSE <<"A","g","A","=">>
AudioResults(script) == { SpeechOf(script), <<"A","A","=","=">>, <<"!">> }

ScriptFailed == "Could not generate recap script from the provided transcript."
AudioFailed == "Could not generate audio from the provided script."
TranscribeFailed ==
    "Could not transcribe the file. The format may not be supported or the file may be corrupt."
TranscriptMissing == "Please provide a transcript to generate a recap."

\* Busy, had the controls been disabled by isLoading alone
Busy_loadingOnly == isLoading

\* disabled={isLoading || isTranscribing}
Busy == isLoading \/ isTranscribing

handleFileChange ==
    /\ ~Busy
    /\ mediaFile' = TRUE
    /\ UNCHANGED <<blobStore, urlCounter, callVars, transcript,
                   isTranscribing, recapScript, title, audioUrl, isLoading,
                   error, history, gen, now>>

\* the textarea's onChange
setTranscript ==
    /\ ~Busy
    /\ \E v \in Transcripts : transcript' = v
    /\ UNCHANGED <<blobStore, urlCounter, callVars, mediaFile,
                   isTranscribing, recapScript, title, audioUrl, isLoading,
                   error, history, gen, now>>

\* handleTranscribe up to its await
handleTranscribe ==
    /\ mediaFile
    /\ ~Busy
    /\ isTranscribing' = TRUE
    /\ error' = NoError
    /\ transcript' = <<>>
    /\ UNCHANGED <<blobStore, urlCounter, callVars, mediaFile, recapScript,
                   title, audioUrl, isLoading, history, gen, now>>

\* transcribeMedia resolved: the rest of handleTranscribe's try
transcribeResolved ==
    /\ isTranscribing
    /\ \E text \in {<<>>, <<"t">>} : transcript' = text
    /\ isTranscribing' = FALSE
    /\ UNCHANGED <<blobStore, urlCounter, callVars, mediaFile, recapScript,
                   title, audioUrl, isLoading, error, history, gen, now>>

\* transcribeMedia rejected: handleTranscribe's catch and finally
transcribeRejected ==
    /\ isTranscribing
    /\ error' = TranscribeFailed
    /\ isTranscribing' = FALSE
    /\ UNCHANGED <<blobStore, urlCounter, callVars, transcript, mediaFile,
                   recapScript, title, audioUrl, isLoading, history, gen, now>>

\* handleGenerate on a blank transcript: the early return
handleGenerateBlank ==
    /\ ~Busy
    /\ transcript # <<>>
    /\ Trim(transcript) = <<>>
    /\ error' = TranscriptMissing
    /\ UNCHANGED <<blobStore, urlCounter, callVars, transcript, mediaFile,
                   isTranscribing, recapScript, title, audioUrl, isLoading,
                   history, gen, now>>

\* handleGenerate up to the await of generateRecapScript
handleGenerate ==
    /\ ~Busy
    /\ transcript # <<>>
    /\ Trim(transcript) # <<>>
    /\ now < MaxRecaps
    /\ isLoading' = TRUE
    /\ error' = NoError
    /\ recapScript' = ""
    /\ title' = ""
    /\ audioUrl' = NoUrl
    /\ gen' = [GenIdle EXCEPT !.pc = "awaitScript"]
    /\ now' = now + 1
    /\ UNCHANGED <<blobStore, urlCounter, callVars, transcript, mediaFile,
                   isTranscribing, history>>

\* generateRecapScript resolved: on to the await of generateAudio
scriptResolved ==
    /\ gen.pc = "awaitScript"
    /\ \E r \in Recaps :
          /\ recapScript' = r.script
          /\ title' = r.title
          /\ gen' = [pc |-> "awaitAudio", script |-> r.script,
                     title |-> r.title]
    /\ UNCHANGED <<blobStore, urlCounter, callVars, transcript, mediaFile,
                   isTranscribing, audioUrl, isLoading, error, history, now>>

\* generateRecapScript rejected: handleGenerate's catch and finally
scriptRejected ==
    /\ gen.pc = "awaitScript"
    /\ error' = ScriptFailed
    /\ isLoading' = FALSE
    /\ gen' = GenIdle
    /\ UNCHANGED <<blobStore, urlCounter, callVars, transcript, mediaFile,
                   isTranscribing, recapScript, title, audioUrl, history, now>>

\* audioResolved, had the history item been saved before createWavUrl ran
audioResolved_historyFirst ==
    /\ gen.pc = "awaitAudio"
    /\ \E audioBase64 \in AudioResults(gen.script) :
       \E r \in {createWavUrl(blobStore, urlCounter, audioBase64)} :
          /\ blobStore' = r.store
          /\ urlCounter' = r.counter
          /\ history' = <<[id |-> now, title |-> gen.title,
                           script |-> gen.script,
                           audioBase64 |-> audioBase64]>> \o history
          /\ IF r.threw THEN error' = r.error /\ UNCHANGED audioUrl
                        ELSE audioUrl' = r.url /\ UNCHANGED error
    /\ isLoading' = FALSE
    /\ gen' = GenIdle
    /\ UNCHANGED <<callVars, transcript, mediaFile, isTranscribing,
                   recapScript, title, now>>

\* generateAudio resolved: createWavUrl, then the history item, or the catch
\* when createWavUrl throws; finally either way
audioResolved ==
    /\ gen.pc = "awaitAudio"
    /\ \E audioBase64 \in AudioResults(gen.script) :
       \E r \in {createWavUrl(blobStore, urlCounter, audioBase64)} :
          LET newHistoryItem == [id |-> now, title |-> gen.title,
                                 script |-> gen.script,
                                 audioBase64 |-> audioBase64]
          IN /\ blobStore' = r.store
             /\ urlCounter' = r.counter
             /\ IF r.threw
                THEN /\ error' = r.error
                     /\ UNCHANGED <<audioUrl, history>>
                ELSE /\ audioUrl' = r.url
                     /\ history' = <<newHistoryItem>> \o history
                     /\ UNCHANGED error
    /\ isLoading' = FALSE
    /\ gen' = GenIdle
    /\ UNCHANGED <<callVars, transcript, mediaFile, isTranscribing,
                   recapScript, title, now>>

\* generateAudio rejected: handleGenerate's catch and finally
audioRejected ==
    /\ gen.pc = "awaitAudio"
    /\ error' = AudioFailed
    /\ isLoading' = FALSE
    /\ gen' = GenIdle
    /\ UNCHANGED <<blobStore, urlCounter, callVars, transcript, mediaFile,
                   isTranscribing, recapScript, title, audioUrl, history, now>>

\* the Clear button is rendered when recapScript && !isLoading
handleClearCurrent ==
    /\ recapScript # ""
    /\ ~isLoading
    /\ recapScript' = ""
    /\ title' = ""
    /\ audioUrl' = NoUrl
    /\ error' = NoError
    /\ UNCHANGED <<blobStore, urlCounter, callVars, transcript, mediaFile,
                   isTranscribing, isLoading, history, gen, now>>

\* the load button of a history item is never disabled; a throw of
\* createWavUrl leaves the handler after the first two setters
handleLoadHistory ==
    /\ urlCounter < MaxUrls
    /\ \E k \in 1..Len(history) :
       \E r \in {createWavUrl(blobStore, urlCounter,
                               history[k].audioBase64)} :
          LET item == history[k]
          IN /\ title' = item.title
             /\ recapScript' = item.script
             /\ blobStore' = r.store
             /\ urlCounter' = r.counter
             /\ audioUrl' = IF r.threw THEN audioUrl ELSE r.url
    /\ UNCHANGED <<callVars, transcript, mediaFile, isTranscribing,
                   isLoading, error, history, gen, now>>

handleDeleteHistory ==
    /\ \E k \in 1..Len(history) :
          history' = SelectSeq(history, LAMBDA item : item.id # history[k].id)
    /\ UNCHANGED <<blobStore, urlCounter, callVars, transcript, mediaFile,
                   isTranscribing, recapScript, title, audioUrl, isLoading,
                   error, gen, now>>

\* the Clear All button is rendered when history.length > 0
handleClearAllHistory ==
    /\ history # <<>>
    /\ history' = <<>>
    /\ UNCHANGED <<blobStore, urlCounter, callVars, transcript, mediaFile,
                   isTranscribing, recapScript, title, audioUrl, isLoading,
                   error, gen, now>>

Init ==
    /\ blobStore = EmptyStore
    /\ urlCounter = 0
    /\ pc = "done"
    /\ call = NoCall
    /\ ret = NoRet
    /\ storeBefore = EmptyStore
    /\ AppInit

Next ==
    \/ handleFileChange
    \/ setTranscript
    \/ handleTranscribe
    \/ transcribeResolved
    \/ transcribeRejected
    \/ handleGenerateBlank
    \/ handleGenerate
    \/ scriptResolved
    \/ scriptRejected
    \/ audioResolved
    \/ audioRejected
    \/ handleClearCurrent
    \/ handleLoadHistory
    \/ handleDeleteHistory
    \/ handleClearAllHistory

Spec == Init /\ [][Next]_vars

-----------------------------------------------------------------------------
(* Properties of the encoder, checked under SpecAudio *)

U16At(bytes, offset) == bytes[offset + 1] + 256 * bytes[offset + 2]

\* the little-endian u32 at offset; -1 when it is 2^31 or more
U32At(bytes, offset) ==
    IF bytes[offset + 4] >= 128 THEN -1
    ELSE bytes[offset + 1] + 256 * bytes[offset + 2]
         + 65536 * bytes[offset + 3] + 16777216 * bytes[offset + 4]

Signed16(u) == IF u >= 32768 THEN u - 65536 ELSE u

FacadeDone == pc = "done" /\ call.fn = "createWavUrl"
FacadeOk == FacadeDone /\ ~ret.threw
EncodeDone == pc = "done" /\ call.fn = "encodeWAV"

\* the buffer behind the url the facade returned
FacadeWav == blobStore[ret.url].bytes

\* the input is well-formed base64 (as atob takes it)
Decodable == ~atob(call.base64Audio).threw
\* the bytes a well-formed input stands for number floor(6n/8), n the
\* count of its alphabet characters
DecodedLength ==
    (6 * Len(SelectSeq(call.base64Audio,
                       LAMBDA c : c \in Range(Base64Alphabet)))) \div 8

KnownVector == <<"A","Q","A","C","A","A","M","A","B","A","A","=">>

\* C1: an input that decodes to an even number of bytes yields, through
\* createWavUrl, a WAV buffer of exactly 44 + 2*sampleCount bytes, where
\* sampleCount = floor(decodedByteLength / 2).
C1_RoundTripLength ==
    (FacadeDone /\ Decodable /\ DecodedLength % 2 = 0) =>
        /\ ~ret.threw
        /\ Len(ret.rawData) = DecodedLength
        /\ Len(FacadeWav) = 44 + 2 * (DecodedLength \div 2)

C1_Witness ==
    /\ FacadeOk
    /\ DecodedLength = 4
    /\ Len(FacadeWav) = 48

\* C2: in every buffer encodeWAV produces, ChunkSize (offset 4) is
\* 36 + dataBytes = length - 8, Subchunk2Size (offset 40) is dataBytes =
\* length - 44, and the tags "RIFF", "WAVE", "fmt ", "data" sit at offsets
\* 0, 8, 12, 36; the empty input gives 44 bytes, ChunkSize 36, Subchunk2Size 0.
WavSizesAndTags(w, sampleCount) ==
    /\ Len(w) = 44 + 2 * sampleCount
    /\ U32At(w, 4) = 36 + 2 * sampleCount
    /\ U32At(w, 4) = Len(w) - 8
    /\ U32At(w, 40) = 2 * sampleCount
    /\ U32At(w, 40) = Len(w) - 44
    /\ SubSeq(w, 1, 4) = <<82, 73, 70, 70>>
    /\ SubSeq(w, 9, 12) = <<87, 65, 86, 69>>
    /\ SubSeq(w, 13, 16) = <<102, 109, 116, 32>>
    /\ SubSeq(w, 37, 40) = <<100, 97, 116, 97>>

C2_SizeFieldsMatch ==
    /\ EncodeDone => WavSizesAndTags(ret.blob.bytes, Len(call.samples))
    /\ FacadeOk => WavSizesAndTags(FacadeWav, Len(ret.pcmData))
    /\ (FacadeDone /\ call.base64Audio = <<>>) =>
          /\ ~ret.threw
          /\ Len(FacadeWav) = 44
          /\ U32At(FacadeWav, 4) = 36
          /\ U32At(FacadeWav, 40) = 0

C2_Witness ==
    /\ EncodeDone
    /\ Len(call.samples) = 2
    /\ U32At(ret.blob.bytes, 4) = 40
    /\ U32At(ret.blob.bytes, 40) = 4

\* C3: after a successful createWavUrl the bytes of the WAV buffer from
\* offset 44 on are the decoded input bytes, in order; "AQACAAMABAA="
\* gives 52 bytes ending in 01 00 02 00 03 00 04 00.
C3_PayloadIsInput ==
    /\ FacadeOk =>
          /\ Len(FacadeWav) = 44 + Len(ret.rawData)
          /\ \A i \in 1..Len(ret.rawData) : FacadeWav[44 + i] = ret.rawData[i]
    /\ (FacadeDone /\ call.base64Audio = KnownVector) =>
          /\ ~ret.threw
          /\ Len(FacadeWav) = 52
          /\ U32At(FacadeWav, 40) = 8
          /\ SubSeq(FacadeWav, 45, 52) = <<1, 0, 2, 0, 3, 0, 4, 0>>

C3_Witness ==
    /\ FacadeOk
    /\ call.base64Audio = <<"A", "Q", "/", "/", "/", "Q">>
    /\ SubSeq(FacadeWav, 45, 48) = <<1, 15, 255, 253>>

\* C4: a decoded buffer of odd length makes createWavUrl fail with the
\* malformed-audio error (the RangeError of the Int16Array constructor);
\* nothing is truncated or padded and no WAV buffer is produced.
C4_OddLengthRejected ==
    (FacadeDone /\ Decodable /\ DecodedLength % 2 = 1) =>
        /\ ret.threw
        /\ ret.error = "RangeError"
        /\ ret.url = NoUrl
        /\ blobStore = storeBefore

C4_Witness ==
    /\ FacadeDone
    /\ call.base64Audio = <<"A", "Q", "I", "D">>
    /\ Len(ret.rawData) = 3
    /\ ret.threw

\* C6: encodeWAV with a non-positive sampleRate or numChannels fails with
\* InvalidFormatError and produces no WAV buffer.
C6_InvalidFormatRejected ==
    (EncodeDone /\ (call.sampleRate <= 0 \/ call.numChannels <= 0)) =>
        /\ ret.threw
        /\ ret.error = "InvalidFormatError"
        /\ ret.blob = NoBlob

\* C7: every buffer produced through createWavUrl carries the fixed format:
\* Subchunk1Size 16, AudioFormat 1, NumChannels 1, SampleRate 24000,
\* ByteRate 48000, BlockAlign 2, BitsPerSample 16, all little-endian.
C7_FixedFormat ==
    FacadeOk =>
        /\ U32At(FacadeWav, 16) = 16
        /\ U16At(FacadeWav, 20) = 1
        /\ U16At(FacadeWav, 22) = 1
        /\ U32At(FacadeWav, 24) = 24000
        /\ U32At(FacadeWav, 28) = 48000
        /\ U16At(FacadeWav, 32) = 2
        /\ U16At(FacadeWav, 34) = 16
        /\ SubSeq(FacadeWav, 25, 28) = <<192, 93, 0, 0>>

C7_Witness ==
    /\ FacadeOk
    /\ Len(ret.pcmData) = 2
    /\ U32At(FacadeWav, 24) = 24000
    /\ U32At(FacadeWav, 28) = 48000

\* C8: each consecutive byte pair (lo, hi) of the decoded input becomes the
\* sample ((hi << 8) | lo) read as a signed 16-bit integer: [0x34, 0x12]
\* gives 4660, and a pair with hi >= 0x80 gives a negative sample.
C8_LittleEndianSamples ==
    /\ FacadeOk =>
          /\ 2 * Len(ret.pcmData) = Len(ret.rawData)
          /\ \A i \in 1..Len(ret.pcmData) :
                /\ ret.pcmData[i] =
                      Signed16(256 * ret.rawData[2 * i] + ret.rawData[2 * i - 1])
                /\ ret.pcmData[i] \in -32768..32767
                /\ ret.rawData[2 * i] >= 128 => ret.pcmData[i] < 0
    /\ (FacadeDone /\ call.base64Audio = <<"N", "B", "I", "=">>) =>
          /\ ret.rawData = <<52, 18>>
          /\ ret.pcmData = <<4660>>

C8_Witness ==
    /\ FacadeOk
    /\ call.base64Audio = <<"A", "I", "A", "=">>
    /\ ret.rawData = <<0, 128>>
    /\ ret.pcmData = <<-32768>>

\* C9: when createWavUrl fails (a character outside the alphabet, invalid
\* padding, or an odd decoded length) the failing stage's error reaches the
\* caller as it is, no url is returned and the live handles are those of
\* before the call.
ForeignChar ==
    \E i \in 1..Len(call.base64Audio) :
        call.base64Audio[i] \notin
            (Range(Base64Alphabet) \cup AsciiWhitespace \cup {"="})

C9_FailureLeavesNoHandle ==
    /\ (FacadeDone /\ ret.threw) =>
          /\ ret.error = IF Decodable THEN "RangeError"
                         ELSE "InvalidCharacterError"
          /\ ret.url = NoUrl
          /\ blobStore = storeBefore
          /\ urlCounter = Cardinality(DOMAIN storeBefore)
    /\ (FacadeDone /\ ForeignChar) =>
          ret.threw /\ ret.error = "InvalidCharacterError"
    /\ (FacadeDone /\ call.base64Audio = <<"A", "=">>) => ret.threw

C9_Witness ==
    /\ FacadeDone
    /\ ret.threw
    /\ ret.error = "InvalidCharacterError"
    /\ call.base64Audio = <<"A", "A", "=", "A">>
    /\ DOMAIN blobStore = {1}

-----------------------------------------------------------------------------
(* Properties of the App's handling of its urls, checked under Spec *)

\* C5: a url the App no longer holds has been released: whenever audioUrl is
\* superseded by a generated or history-loaded recap, or cleared, the previous
\* url leaves the blob URL store, so the store never holds more than the url
\* in audioUrl.
C5_SupersededHandleReleased ==
    \A u \in DOMAIN blobStore : u = audioUrl

\* C11: a call of createWavUrl only adds one new handle: every handle of
\* before the call is still there with the same buffer, and a call that
\* changes the store adds exactly one url that was not in use, the one the
\* caller receives; calls with the same input get a url each.
C11_CallOnlyAddsOneHandle ==
    [][/\ \A u \in DOMAIN blobStore :
             u \in DOMAIN blobStore' /\ blobStore'[u] = blobStore[u]
       /\ blobStore' # blobStore =>
             \E u \in DOMAIN blobStore' :
                 /\ u \notin DOMAIN blobStore
                 /\ DOMAIN blobStore' = DOMAIN blobStore \cup {u}
                 /\ audioUrl' = u]_vars

C11_Witness ==
    \E u, v \in DOMAIN blobStore :
        /\ u # v
        /\ blobStore[u] = blobStore[v]
        /\ audioUrl = v

\* C13: whenever audioUrl is non-null, it is the url of the audio of the
\* recap whose script and title are displayed, under every interleaving of
\* an in-flight handleGenerate with handleLoadHistory.
C13_AudioMatchesDisplayedRecap ==
    audioUrl # NoUrl =>
        \E r \in Recaps :
            /\ recapScript = r.script
            /\ title = r.title
            /\ audioUrl \in DOMAIN blobStore
            /\ blobStore[audioUrl] = createWavBlob(SpeechOf(r.script)).value

\* C14: handleGenerate prepends exactly one new item to history if and only
\* if script generation, audio generation and createWavUrl all succeed; on a
\* blank transcript or a failed step history is left as it is, error is set
\* to a message, and isLoading is false once the handler has finished.
GenerateFinishes == gen.pc # "idle" /\ gen'.pc = "idle"

\* the item of the recap in flight, its audio being that behind the new url
IsNewItem(item) ==
    /\ item.id = now
    /\ item.title = gen.title
    /\ item.script = gen.script
    /\ audioUrl' \in DOMAIN blobStore' \ DOMAIN blobStore
    /\ blobStore'[audioUrl'] = createWavBlob(item.audioBase64).value

C14_HistoryItemIffSuccess ==
    [][/\ GenerateFinishes =>
             /\ isLoading' = FALSE
             /\ \/ /\ gen.pc = "awaitAudio"
                   /\ blobStore' # blobStore
                   /\ Len(history') = Len(history) + 1
                   /\ Tail(history') = history
                   /\ IsNewItem(Head(history'))
                \/ /\ blobStore' = blobStore
                   /\ history' = history
                   /\ error' \in {ScriptFailed, AudioFailed,
                                  "InvalidCharacterError", "RangeError"}
                   /\ UNCHANGED audioUrl
       /\ (error' = TranscriptMissing /\ error # TranscriptMissing) =>
             /\ Trim(transcript) = <<>>
             /\ history' = history
             /\ isLoading' = FALSE
             /\ UNCHANGED <<gen, audioUrl, blobStore>>
       /\ Len(history') > Len(history) => GenerateFinishes]_vars

C14_Witness ==
    /\ now = 2
    /\ gen.pc = "idle"
    /\ ~isLoading
    /\ error = "RangeError"
    /\ Len(history) = 1
    /\ history[1].id = 1

\* C15: transcription and recap generation exclude each other: in every
\* reachable state isTranscribing and isLoading are not both true.
C15_TranscribeExcludesGenerate ==
    /\ ~(isTranscribing /\ isLoading)
    /\ isLoading <=> gen.pc # "idle"

C15_Witness ==
    /\ isLoading
    /\ gen.pc = "awaitAudio"
    /\ mediaFile
    /\ ~isTranscribing
    /\ transcript # <<>>

====
